---- MODULE Spec2Model ----
(***************************************************************************)
(* Hybrid retrieval engine of advanced_rag.py: Document, HybridRetriever   *)
(* (ingestion, sparse/dense search, fusion, filters, rerank, cache) and    *)
(* AdvancedRAGSystem (construction, retrieve, _chunk_text).                *)
(*                                                                         *)
(* Spec is the engine over its runs: construction, ingestion, queries,     *)
(* exit, and damage to the cache directory between runs.  QuerySpec is two *)
(* callers inside retrieve at once.  ChunkSpec is _chunk_text on its       *)
(* inputs.  IngestSpec is ingestion whose embedding call may raise,        *)
(* StoreSpec the runs over one cache directory with a save that may be     *)
(* interrupted, SourceSpec the source listing and source-restricted        *)
(* search of domain_expert.py.                                             *)
(*                                                                         *)
(* Scores are fixed-point integers in units of 1/ScoreUnit.  Corpus        *)
(* positions are 0-based as in the source; TLA+ sequences are 1-based, so  *)
(* documents[idx] of the source is documents[idx + 1] here.                *)
(*                                                                         *)
(* The build is one with chromadb absent (chromadb is None): the dense     *)
(* path is FAISS when faissLib, the numpy scan otherwise.  Corpora stay    *)
(* below ExactThreshold, so every FAISS index is the exact one.            *)
(* An operation that raises is recorded as last.found.raised.              *)
(***************************************************************************)
EXTENDS Integers, Sequences, FiniteSets, TLC

VARIABLES
    pc,          \* "off": no engine in the process, "ready": AdvancedRAGSystem constructed
    documents,   \* HybridRetriever.documents
    bm25,        \* HybridRetriever.bm25
    index,       \* HybridRetriever.index (FAISS)
    blob,        \* rag_cache/rag_cache.pkl
    faissFile,   \* rag_cache/faiss.index
    docsDir,     \* the files under docs_path, already split into chunks
    faissLib,    \* faiss is not None
    bm25Lib,     \* BM25Okapi is not None
    hasReranker, \* self.reranker is not None
    tieOrder,    \* how this build's library sorts order equal scores
    last,        \* the last operation, its arguments, intermediate values and outcome
    inflight,    \* the retrieve calls in progress, one per concurrent caller
    chunking     \* a call of _chunk_text: its input, chunk_size and outcome

vars == <<pc, documents, bm25, index, blob, faissFile, docsDir, faissLib,
          bm25Lib, hasReranker, tieOrder, last, inflight, chunking>>

----------------------------------------------------------------------------
(* Bounds of the model. *)

MaxDocs == 3
MaxK == 2

(* Fixed-point scale of every score. *)
ScoreUnit == 40 * 100

(* Blend weights are alpha = a / AlphaDen. *)
AlphaDen == 1 + 1
Alphas == 0..AlphaDen

----------------------------------------------------------------------------
(* Sequence helpers (Python list semantics). *)

Min(a, b) == IF a < b THEN a ELSE b
Max(a, b) == IF a > b THEN a ELSE b

\* seq[:m]
Take(seq, m) == SubSeq(seq, 1, Min(m, Len(seq)))

\* seq[-k:]  (k = 0 gives the whole sequence, since -0 == 0)
LastK(seq, k) ==
    IF k = 0 THEN seq ELSE SubSeq(seq, Max(1, Len(seq) - k + 1), Len(seq))

\* seq[::-1]
Reverse(seq) == [i \in 1..Len(seq) |-> seq[Len(seq) + 1 - i]]

RECURSIVE SumSeq(_)
SumSeq(seq) == IF seq = <<>> THEN 0 ELSE seq[1] + SumSeq(Tail(seq))

RECURSIVE InsertDesc(_, _)
\* insert x after every element whose score is >= x.score
InsertDesc(sorted, x) ==
    IF sorted = <<>> THEN <<x>>
    ELSE IF sorted[1].score >= x.score
         THEN <<sorted[1]>> \o InsertDesc(Tail(sorted), x)
         ELSE <<x>> \o sorted

RECURSIVE SortDesc(_)
\* list.sort(key=lambda x: x[1], reverse=True): stable, descending by score
SortDesc(seq) ==
    IF seq = <<>> THEN <<>>
    ELSE InsertDesc(SortDesc(SubSeq(seq, 1, Len(seq) - 1)), seq[Len(seq)])

\* np.argsort(scores): 0-based positions in ascending score order; the order
\* of equal scores is the build's (tieOrder)
Before(scores, i, j, tie) ==
    \/ scores[i] < scores[j]
    \/ /\ scores[i] = scores[j]
       /\ IF tie = "low_first" THEN i < j ELSE i > j

argsort(scores, tie) ==
    LET n == Len(scores)
        rank(i) == Cardinality({j \in 1..n : Before(scores, j, i, tie)})
    IN  [p \in 1..n |-> (CHOOSE i \in 1..n : rank(i) = p - 1) - 1]

----------------------------------------------------------------------------
(* The modelled world: sources, texts, queries, and the external models.   *)

SrcA == [dir |-> "docs", stem |-> "a", ext |-> "txt"]
SrcB == [dir |-> "docs", stem |-> "b", ext |-> "txt"]

\* a text is its sequence of whitespace-separated words
TextCats == <<"Cats", "mammals">>
TextDogs == <<"dogs", "mammals">>
TextRocks == <<"rocks">>

Queries == {<<"mammals">>, <<"Cats">>}

NoPage == 0
NoId == <<>>
NoEmbedding == <<>>

\* str.lower() on one word
LowerWord(w) ==
    CASE w = "Cats" -> "cats"
      [] OTHER -> w

\* text.lower().split()
Tokenize(text) == [i \in 1..Len(text) |-> LowerWord(text[i])]

\* SentenceTransformer.encode: a deterministic map from text to a vector.
\* The vectors have norms 5, 2, 1, 1, 1, so that cosines are exact in
\* ScoreUnit and the norms of the documents differ.
encode(text) ==
    CASE text = TextCats -> <<3, 4>>
      [] text = TextDogs -> <<0, 2>>
      [] text = TextRocks -> <<-1, 0>>
      [] text = <<"mammals">> -> <<0, 1>>
      [] OTHER -> <<1, 0>>

\* CrossEncoder.predict on one (query, text) pair; raw logits, not
\* confined to [-1, 1]
predict(query, text) ==
    CASE text = TextCats -> 0 - ScoreUnit
      [] text = TextDogs -> 2 * ScoreUnit
      [] OTHER -> IF query = <<"mammals">> THEN 0 ELSE ScoreUnit

Dot(u, v) == SumSeq([i \in 1..Len(u) |-> u[i] * v[i]])

\* Euclidean norm of a model vector (all of them have integer norms)
Norm(v) == CHOOSE n \in 0..5 : n * n = Dot(v, v)

----------------------------------------------------------------------------
(* Document *)

TextPrefix == 50

\* Document.__post_init__: metadata defaults to {}, and an empty id is
\* replaced by the digest of source, page, chunk_index and text[:50]
Document(id, text, source, page, chunk_index, metadata) ==
    [id |-> IF id = NoId
            THEN <<source, page, chunk_index, Take(text, TextPrefix)>>
            ELSE id,
     text |-> text,
     source |-> source,
     page |-> page,
     chunk_index |-> chunk_index,
     metadata |-> metadata,
     embedding |-> NoEmbedding]

\* Document.get_citation
get_citation(doc) ==
    IF doc.page # NoPage THEN <<doc.source.stem, doc.page>> ELSE <<doc.source.stem>>

----------------------------------------------------------------------------
(* HybridRetriever: indices *)

ExactThreshold == 10000
MaxClusters == 100
ClusterDivisor == 10

NoBM25 == [present |-> FALSE, corpus |-> <<>>]
NoIndex == [present |-> FALSE, kind |-> "none", nlist |-> 0, vectors |-> <<>>]

\* HybridRetriever._build_sparse_index: without the library the index is
\* left as it is, otherwise it is rebuilt from all of self.documents
_build_sparse_index(docs, oldBm25, lib) ==
    IF ~lib THEN oldBm25
    ELSE [present |-> TRUE,
          corpus |-> [i \in 1..Len(docs) |-> Tokenize(docs[i].text)]]

\* faiss.normalize_L2 on one row: the row divided by its norm, kept as the
\* pair (row, norm)
normalize_L2(v) == [vec |-> v, norm |-> Norm(v)]

\* HybridRetriever._build_dense_index: nothing for an empty corpus or
\* without faiss; an exact inner-product index below ExactThreshold
\* documents, a clustered one otherwise; rows are L2-normalized
_build_dense_index(docs, oldIndex, lib) ==
    IF docs = <<>> THEN oldIndex
    ELSE IF ~lib THEN oldIndex
    ELSE [present |-> TRUE,
          kind |-> IF Len(docs) < ExactThreshold THEN "IndexFlatIP" ELSE "IndexIVFFlat",
          nlist |-> IF Len(docs) < ExactThreshold THEN 0
                    ELSE Min(Len(docs) \div ClusterDivisor, MaxClusters),
          vectors |-> [i \in 1..Len(docs) |-> normalize_L2(docs[i].embedding)]]

\* BM25Okapi.get_scores: one score per indexed document, in index order;
\* term-frequency overlap of the query words with the document
CountWord(w, tokens) == Cardinality({i \in 1..Len(tokens) : tokens[i] = w})

get_scores(sparse, tokenized_query) ==
    [i \in 1..Len(sparse.corpus) |->
        ScoreUnit * SumSeq([j \in 1..Len(tokenized_query) |->
                               CountWord(tokenized_query[j], sparse.corpus[i])])]

----------------------------------------------------------------------------
(* HybridRetriever: the two retrieval paths *)

RECURSIVE SelectPositive(_, _)
SelectPositive(top, scores) ==
    IF top = <<>> THEN <<>>
    ELSE (IF scores[top[1] + 1] > 0 THEN <<top[1]>> ELSE <<>>)
         \o SelectPositive(Tail(top), scores)

\* HybridRetriever._sparse_search
_sparse_search(docs, sparse, query, k, tie) ==
    IF ~sparse.present THEN [raised |-> FALSE, results |-> <<>>]
    ELSE
      LET scores == get_scores(sparse, Tokenize(query))
          top_indices == Reverse(LastK(argsort(scores, tie), k))
          hits == SelectPositive(top_indices, scores)
      IN  IF \E i \in 1..Len(hits) : hits[i] >= Len(docs)
          THEN [raised |-> TRUE, results |-> <<>>]          \* IndexError
          ELSE [raised |-> FALSE,
                results |-> [i \in 1..Len(hits) |->
                               [doc |-> docs[hits[i] + 1], score |-> scores[hits[i] + 1]]]]

NotFound == 0 - 1

\* index.search of an exact inner-product index: the k best rows, best
\* first, padded with the not-found position when the index holds fewer
\* than k rows.  The Python wrapper asserts k > 0.
faiss_search(idx, qvec, k, tie) ==
    LET q == normalize_L2(qvec)
        sims == [i \in 1..Len(idx.vectors) |->
                   (Dot(idx.vectors[i].vec, q.vec) * ScoreUnit)
                      \div (idx.vectors[i].norm * q.norm)]
        best == Reverse(argsort(sims, tie))
    IN  [i \in 1..k |->
           IF i <= Len(best)
           THEN [idx |-> best[i], score |-> sims[best[i] + 1]]
           ELSE [idx |-> NotFound, score |-> 0 - 4 * ScoreUnit]]

RECURSIVE SelectFound(_)
SelectFound(found) ==
    IF found = <<>> THEN <<>>
    ELSE (IF found[1].idx >= 0 THEN <<found[1]>> ELSE <<>>) \o SelectFound(Tail(found))

\* HybridRetriever._dense_search (FAISS path and numpy fallback)
_dense_search(docs, dense, lib, query, k, tie) ==
    LET query_embedding == encode(query)
    IN  IF lib /\ dense.present
        THEN
          IF k = 0 THEN [raised |-> TRUE, results |-> <<>>]     \* AssertionError
          ELSE
            LET found == SelectFound(faiss_search(dense, query_embedding, k, tie))
            IN  IF \E i \in 1..Len(found) : found[i].idx >= Len(docs)
                THEN [raised |-> TRUE, results |-> <<>>]        \* IndexError
                ELSE [raised |-> FALSE,
                      results |-> [i \in 1..Len(found) |->
                                     [doc |-> docs[found[i].idx + 1],
                                      score |-> found[i].score]]]
        ELSE
          IF docs = <<>>
          THEN [raised |-> TRUE, results |-> <<>>]   \* np.dot: shapes (0,) and (d,) not aligned
          ELSE
            LET similarities == [i \in 1..Len(docs) |->
                                   Dot(docs[i].embedding, query_embedding) * ScoreUnit]
                top_indices == Reverse(LastK(argsort(similarities, tie), k))
            IN  [raised |-> FALSE,
                 results |-> [i \in 1..Len(top_indices) |->
                                [doc |-> docs[top_indices[i] + 1],
                                 score |-> similarities[top_indices[i] + 1]]]]

----------------------------------------------------------------------------
(* HybridRetriever: filters, rerank, fusion *)

NoFilters == [key \in {} |-> TRUE]

\* a metadata key the document lacks rejects it
FilterRejectsStrict(cand, key, value) ==
    IF key = "source" /\ cand.doc.source # value THEN TRUE
    ELSE IF key = "min_score" /\ cand.score < value THEN TRUE
    ELSE IF key \notin {"source", "min_score"} /\ key \notin DOMAIN cand.doc.metadata THEN TRUE
    ELSE IF key \in DOMAIN cand.doc.metadata /\ cand.doc.metadata[key] # value THEN TRUE
    ELSE FALSE

\* the min_score floor is not applied
FilterRejectsNoFloor(cand, key, value) ==
    IF key = "source" /\ cand.doc.source # value THEN TRUE
    ELSE IF key \in DOMAIN cand.doc.metadata /\ cand.doc.metadata[key] # value THEN TRUE
    ELSE FALSE

\* one pass of the inner loop of _apply_filters: does this key clear
\* `include` for the candidate?
FilterRejects(cand, key, value) ==
    IF key = "source" /\ cand.doc.source # value THEN TRUE
    ELSE IF key = "min_score" /\ cand.score < value THEN TRUE
    ELSE IF key \in DOMAIN cand.doc.metadata /\ cand.doc.metadata[key] # value THEN TRUE
    ELSE FALSE

RECURSIVE _apply_filters(_, _)
\* HybridRetriever._apply_filters
_apply_filters(candidates, filters) ==
    IF candidates = <<>> THEN <<>>
    ELSE LET include ==
               ~ \E key \in DOMAIN filters : FilterRejects(candidates[1], key, filters[key])
         IN  (IF include THEN <<candidates[1]>> ELSE <<>>)
             \o _apply_filters(Tail(candidates), filters)

RetrievalWeight == 3
RerankWeight == 7
WeightDen == 10

\* _rerank with both normalized scores clamped to [0, 1]
_rerank_clamped(query, candidates, k) ==
    IF candidates = <<>> THEN candidates
    ELSE Take(SortDesc([i \in 1..Len(candidates) |->
             [doc |-> candidates[i].doc,
              score |-> (RetrievalWeight
                            * Max(0, Min(ScoreUnit, (candidates[i].score + ScoreUnit) \div 2))
                         + RerankWeight
                            * Max(0, Min(ScoreUnit,
                                         (predict(query, candidates[i].doc.text) + ScoreUnit)
                                            \div 2)))
                        \div WeightDen]]), k)

\* _rerank without the final truncation to k
_rerank_untruncated(query, candidates, k) ==
    IF candidates = <<>> THEN candidates
    ELSE SortDesc([i \in 1..Len(candidates) |->
             [doc |-> candidates[i].doc,
              score |-> (RetrievalWeight * ((candidates[i].score + ScoreUnit) \div 2)
                         + RerankWeight * ((predict(query, candidates[i].doc.text) + ScoreUnit) \div 2))
                        \div WeightDen]])

\* HybridRetriever._rerank
_rerank(query, candidates, k) ==
    IF candidates = <<>> THEN candidates
    ELSE
      LET rerank_scores == [i \in 1..Len(candidates) |-> predict(query, candidates[i].doc.text)]
          reranked == [i \in 1..Len(candidates) |->
             LET normalized_retrieval == (candidates[i].score + ScoreUnit) \div 2
                 normalized_rerank == (rerank_scores[i] + ScoreUnit) \div 2
             IN  [doc |-> candidates[i].doc,
                  score |-> (RetrievalWeight * normalized_retrieval
                             + RerankWeight * normalized_rerank) \div WeightDen]]
      IN  Take(SortDesc(reranked), k)

\* a fusion table that never finds an id it already holds
DictHas_never(items, id) == FALSE

\* combined_scores: a dict, kept as the sequence of its items in insertion order
DictHas(items, id) == \E i \in 1..Len(items) : items[i].id = id

DictSet(items, id, value) ==
    IF DictHas(items, id)
    THEN [i \in 1..Len(items) |->
            IF items[i].id = id THEN [id |-> id, score |-> value] ELSE items[i]]
    ELSE Append(items, [id |-> id, score |-> value])

DictGet(items, id) == items[CHOOSE i \in 1..Len(items) : items[i].id = id].score

RECURSIVE AddSparse(_, _, _)
\* for doc, score in sparse_results: combined_scores[doc.id] = (1 - alpha) * score
AddSparse(items, sparse_results, a) ==
    IF sparse_results = <<>> THEN items
    ELSE AddSparse(DictSet(items, sparse_results[1].doc.id,
                           ((AlphaDen - a) * sparse_results[1].score) \div AlphaDen),
                   Tail(sparse_results), a)

RECURSIVE AddDense(_, _, _)
\* for doc, score in dense_results: add alpha * score to the entry, or create it
AddDense(items, dense_results, a) ==
    IF dense_results = <<>> THEN items
    ELSE LET id == dense_results[1].doc.id
             part == (a * dense_results[1].score) \div AlphaDen
         IN  AddDense(IF DictHas(items, id)
                      THEN DictSet(items, id, DictGet(items, id) + part)
                      ELSE DictSet(items, id, part),
                      Tail(dense_results), a)

\* the reranker is invoked whatever the candidate list holds
rerank_enabled_on_empty(use_reranking, reranker, candidates) ==
    use_reranking /\ reranker

\* the test `use_reranking and self.reranker and candidates` of search
rerank_enabled(use_reranking, reranker, candidates) ==
    use_reranking /\ reranker /\ candidates # <<>>

\* next(d for d in self.documents if d.id == doc_id)
FirstWithId(docs, id) == docs[CHOOSE i \in 1..Len(docs) :
                                /\ docs[i].id = id
                                /\ \A j \in 1..(i - 1) : docs[j].id # id]

\* search with the filter applied to the reranker's output instead of its input
search_filter_last(docs, sparse, dense, lib, reranker, tie, query, k, use_reranking, filters, a) ==
    LET sp == IF a < AlphaDen THEN _sparse_search(docs, sparse, query, k * 3, tie)
              ELSE [raised |-> FALSE, results |-> <<>>]
        de == IF a > 0 /\ ~sp.raised
              THEN _dense_search(docs, dense, lib, query, k * 3, tie)
              ELSE [raised |-> FALSE, results |-> <<>>]
        combined_scores == AddDense(AddSparse(<<>>, sp.results, a), de.results, a)
        fused == SortDesc([i \in 1..Len(combined_scores) |->
                             [doc |-> FirstWithId(docs, combined_scores[i].id),
                              score |-> combined_scores[i].score]])
        candidates == Take(fused, k * 2)
        rerank_called == rerank_enabled(use_reranking, reranker, candidates)
        ranked == IF rerank_called THEN _rerank(query, candidates, k) ELSE Take(candidates, k)
        results == IF DOMAIN filters # {} THEN _apply_filters(ranked, filters) ELSE ranked
        raised == sp.raised \/ de.raised
    IN  [raised |-> raised,
         sparse_called |-> a < AlphaDen,
         dense_called |-> a > 0 /\ ~sp.raised,
         sparse_results |-> sp.results,
         dense_results |-> de.results,
         fused |-> IF raised THEN <<>> ELSE fused,
         candidates |-> IF raised THEN <<>> ELSE candidates,
         filtered |-> IF raised THEN <<>> ELSE candidates,
         rerank_called |-> ~raised /\ rerank_called,
         results |-> IF raised THEN <<>> ELSE results]

\* HybridRetriever.search; every intermediate value is returned
search(docs, sparse, dense, lib, reranker, tie, query, k, use_reranking, filters, a) ==
    LET sparse_called == a < AlphaDen
        dense_called == a > 0
        sp == IF sparse_called THEN _sparse_search(docs, sparse, query, k * 3, tie)
              ELSE [raised |-> FALSE, results |-> <<>>]
        de == IF dense_called /\ ~sp.raised
              THEN _dense_search(docs, dense, lib, query, k * 3, tie)
              ELSE [raised |-> FALSE, results |-> <<>>]
        combined_scores == AddDense(AddSparse(<<>>, sp.results, a), de.results, a)
        fused == SortDesc([i \in 1..Len(combined_scores) |->
                             [doc |-> FirstWithId(docs, combined_scores[i].id),
                              score |-> combined_scores[i].score]])
        candidates == Take(fused, k * 2)
        filtered == IF DOMAIN filters # {} THEN _apply_filters(candidates, filters)
                    ELSE candidates
        rerank_called == rerank_enabled(use_reranking, reranker, filtered)
        results == IF rerank_called THEN _rerank(query, filtered, k) ELSE Take(filtered, k)
        raised == sp.raised \/ de.raised
    IN  [raised |-> raised,
         sparse_called |-> sparse_called,
         dense_called |-> dense_called /\ ~sp.raised,
         sparse_results |-> sp.results,
         dense_results |-> de.results,
         fused |-> IF raised THEN <<>> ELSE fused,
         candidates |-> IF raised THEN <<>> ELSE candidates,
         filtered |-> IF raised THEN <<>> ELSE filtered,
         rerank_called |-> ~raised /\ rerank_called,
         results |-> IF raised THEN <<>> ELSE results]

\* the citation loop without the `not in citations` test
Dedup_keeping_all(docs, citations) ==
    citations \o [i \in 1..Len(docs) |-> get_citation(docs[i])]

\* AdvancedRAGSystem.retrieve: (context, citations, documents); the context
\* is kept as the sequence of its parts (score, text)
RECURSIVE Dedup(_, _)
Dedup(docs, citations) ==
    IF docs = <<>> THEN citations
    ELSE LET citation == get_citation(docs[1])
         IN  Dedup(Tail(docs),
                   IF \E i \in 1..Len(citations) : citations[i] = citation
                   THEN citations ELSE Append(citations, citation))

retrieve(found) ==
    IF found.results = <<>>
    THEN [context |-> <<>>, citations |-> <<>>, documents |-> <<>>]
    ELSE [context |-> [i \in 1..Len(found.results) |->
                         <<found.results[i].score, found.results[i].doc.text>>],
          citations |-> Dedup([i \in 1..Len(found.results) |-> found.results[i].doc], <<>>),
          documents |-> [i \in 1..Len(found.results) |-> found.results[i].doc]]

----------------------------------------------------------------------------
(* HybridRetriever: ingestion and the cache *)

BlobKeys == {"documents", "bm25", "timestamp"}

MissingBlob == [kind |-> "missing", documents |-> <<>>, bm25 |-> NoBM25, keys |-> {}]
CorruptBlob == [kind |-> "corrupt", documents |-> <<>>, bm25 |-> NoBM25, keys |-> {}]
MissingFile == [kind |-> "missing", index |-> NoIndex]
CorruptFile == [kind |-> "corrupt", index |-> NoIndex]

\* HybridRetriever.__init__
NewRetriever == [documents |-> <<>>, bm25 |-> NoBM25, index |-> NoIndex]

\* HybridRetriever._save_cache: the blob always, the index file only with
\* faiss and an index
_save_cache(r, lib, oldFile) ==
    [blob |-> [kind |-> "ok", documents |-> r.documents, bm25 |-> r.bm25, keys |-> BlobKeys],
     faissFile |-> IF lib /\ r.index.present
                   THEN [kind |-> "ok", index |-> r.index]
                   ELSE oldFile]

\* add_documents that starts from an empty corpus instead of appending
add_documents_replacing(r, D, sparseLib, denseLib, oldFile) ==
    LET embedded == [i \in 1..Len(D) |-> [D[i] EXCEPT !.embedding = encode(D[i].text)]]
        sparse == _build_sparse_index(embedded, r.bm25, sparseLib)
        dense == _build_dense_index(embedded, r.index, denseLib)
        after == [documents |-> embedded, bm25 |-> sparse, index |-> dense]
    IN  [retriever |-> after, cache |-> _save_cache(after, denseLib, oldFile)]

\* HybridRetriever.add_documents: embed, append to self.documents, rebuild
\* both indices, save the cache
add_documents(r, D, sparseLib, denseLib, oldFile) ==
    LET embedded == [i \in 1..Len(D) |-> [D[i] EXCEPT !.embedding = encode(D[i].text)]]
        docs == r.documents \o embedded
        sparse == _build_sparse_index(docs, r.bm25, sparseLib)
        dense == _build_dense_index(docs, r.index, denseLib)
        after == [documents |-> docs, bm25 |-> sparse, index |-> dense]
    IN  [retriever |-> after, cache |-> _save_cache(after, denseLib, oldFile)]

\* the number of batches documents[i:i + batch_size] of add_documents
NumBatches(D, batch_size) == (Len(D) + batch_size - 1) \div batch_size

\* HybridRetriever.add_documents when self.embedder.encode raises on batch
\* number `failing`: the documents of the batches before it were embedded
\* and appended to self.documents, the exception leaves the method before
\* the indices are rebuilt and before the cache is saved
add_documents_raising(r, D, batch_size, failing) ==
    LET done == Take(D, (failing - 1) * batch_size)
        embedded == [i \in 1..Len(done) |-> [done[i] EXCEPT !.embedding = encode(done[i].text)]]
    IN  [r EXCEPT !.documents = @ \o embedded]

\* load_cache that skips an unreadable index file and a missing timestamp
load_cache_lenient(r, cacheBlob, cacheFile, denseLib) ==
    IF cacheBlob.kind # "ok" \/ {"documents", "bm25"} \ cacheBlob.keys # {}
    THEN [retriever |-> r, ret |-> FALSE]
    ELSE [retriever |-> [documents |-> cacheBlob.documents,
                         bm25 |-> cacheBlob.bm25,
                         index |-> IF denseLib /\ cacheFile.kind = "ok"
                                   THEN cacheFile.index ELSE r.index],
          ret |-> TRUE]

\* HybridRetriever.load_cache: False when the blob is missing; inside the
\* try block every assignment made before an exception stays made
load_cache(r, cacheBlob, cacheFile, denseLib) ==
    IF cacheBlob.kind = "missing" THEN [retriever |-> r, ret |-> FALSE]
    ELSE IF cacheBlob.kind = "corrupt" THEN [retriever |-> r, ret |-> FALSE]
    ELSE IF "documents" \notin cacheBlob.keys THEN [retriever |-> r, ret |-> FALSE]
    ELSE
      LET r1 == [r EXCEPT !.documents = cacheBlob.documents]
      IN  IF "bm25" \notin cacheBlob.keys THEN [retriever |-> r1, ret |-> FALSE]
          ELSE
            LET r2 == [r1 EXCEPT !.bm25 = cacheBlob.bm25]
                reads == denseLib /\ cacheFile.kind # "missing"
            IN  IF reads /\ cacheFile.kind = "corrupt" THEN [retriever |-> r2, ret |-> FALSE]
                ELSE
                  LET r3 == IF reads THEN [r2 EXCEPT !.index = cacheFile.index] ELSE r2
                  IN  IF "timestamp" \notin cacheBlob.keys
                      THEN [retriever |-> r3, ret |-> FALSE]
                      ELSE [retriever |-> r3, ret |-> TRUE]

----------------------------------------------------------------------------
(* AdvancedRAGSystem: construction *)

SrcP == [dir |-> "docs", stem |-> "p", ext |-> "pdf"]

RECURSIVE ChunksToDocs(_, _, _, _, _)
\* the loop `for i, chunk in enumerate(chunks): if chunk.strip(): ...`
ChunksToDocs(chunks, i, source, page, metadata) ==
    IF i > Len(chunks) THEN <<>>
    ELSE (IF chunks[i] # <<>>
          THEN <<Document(NoId, chunks[i], source, page, i - 1,
                          metadata @@ [chunk_size |-> Len(chunks[i])])>>
          ELSE <<>>)
         \o ChunksToDocs(chunks, i + 1, source, page, metadata)

\* AdvancedRAGSystem._process_text_file
_process_text_file(file) ==
    ChunksToDocs(file.pages[1], 1, file.source, NoPage, [file_type |-> "txt"])

RECURSIVE PagesToDocs(_, _)
\* AdvancedRAGSystem._process_pdf_file: pages are numbered from 1, pages
\* without text are skipped
PagesToDocs(file, page_num) ==
    IF page_num > Len(file.pages) THEN <<>>
    ELSE (IF file.pages[page_num] # <<>>
          THEN ChunksToDocs(file.pages[page_num], 1, file.source, page_num,
                            [file_type |-> "pdf", page_count |-> Len(file.pages)])
          ELSE <<>>)
         \o PagesToDocs(file, page_num + 1)

_process_pdf_file(file) == PagesToDocs(file, 1)

RECURSIVE FilesToDocs(_, _)
FilesToDocs(files, ext) ==
    IF files = <<>> THEN <<>>
    ELSE (IF files[1].source.ext = ext
          THEN (IF ext = "txt" THEN _process_text_file(files[1])
                ELSE _process_pdf_file(files[1]))
          ELSE <<>>)
         \o FilesToDocs(Tail(files), ext)

\* AdvancedRAGSystem._process_documents: text files, then PDF files, then
\* add_documents unless nothing was found
_process_documents(r, files, sparseLib, denseLib, oldBlob, oldFile) ==
    LET docs == FilesToDocs(files, "txt") \o FilesToDocs(files, "pdf")
    IN  IF docs # <<>>
        THEN add_documents(r, docs, sparseLib, denseLib, oldFile)
        ELSE [retriever |-> r, cache |-> [blob |-> oldBlob, faissFile |-> oldFile]]

\* AdvancedRAGSystem.__init__
Construct(files, sparseLib, denseLib, oldBlob, oldFile) ==
    LET loaded == load_cache(NewRetriever, oldBlob, oldFile, denseLib)
        built == IF ~loaded.ret
                 THEN _process_documents(loaded.retriever, files, sparseLib, denseLib,
                                         oldBlob, oldFile)
                 ELSE [retriever |-> loaded.retriever,
                       cache |-> [blob |-> oldBlob, faissFile |-> oldFile]]
    IN  [loaded |-> loaded, processed |-> ~loaded.ret,
         retriever |-> built.retriever, cache |-> built.cache]

----------------------------------------------------------------------------
(* The state machine *)

TxtFile(source, chunks) == [source |-> source, pages |-> <<chunks>>]

DirChoices ==
    << <<>>,
       <<TxtFile(SrcA, <<TextCats>>)>>,
       <<[source |-> SrcP, pages |-> << <<TextDogs>>, <<>>, <<TextRocks>> >>]>> >>

\* batches a caller hands to add_documents
BatchChoices ==
    << <<Document(NoId, TextRocks, SrcA, NoPage, 1, [topic |-> "gis"]),
         Document(NoId, TextDogs, SrcB, NoPage, 0,
                  [file_type |-> "txt", chunk_size |-> 2, topic |-> "bio"])>> >>

HalfUnit == ScoreUnit \div 2

FilterChoices ==
    << NoFilters,
       [source |-> SrcA, min_score |-> HalfUnit],
       [topic |-> "gis"],
       [file_type |-> "pdf"] >>

NoFound ==
    [raised |-> FALSE, sparse_called |-> FALSE, dense_called |-> FALSE,
     sparse_results |-> <<>>, dense_results |-> <<>>, fused |-> <<>>,
     candidates |-> <<>>, filtered |-> <<>>, rerank_called |-> FALSE, results |-> <<>>]

NoOut == [context |-> <<>>, citations |-> <<>>, documents |-> <<>>]

NoLast ==
    [op |-> "none", query |-> <<>>, k |-> 0, use_reranking |-> FALSE,
     filters |-> NoFilters, alpha |-> 0, found |-> NoFound, out |-> NoOut,
     load_ret |-> FALSE, after_load |-> NewRetriever, processed |-> FALSE,
     blob_before |-> MissingBlob, file_before |-> MissingFile,
     before |-> NewRetriever, batch |-> <<>>, batch_size |-> 0, failing |-> 0]

Retriever == [documents |-> documents, bm25 |-> bm25, index |-> index]

NoArgs ==
    [query |-> <<>>, k |-> 0, use_reranking |-> FALSE, filters |-> NoFilters, alpha |-> 0]

\* a caller that has no retrieve call in progress
NoCall ==
    [stage |-> "idle", seen |-> "idle", args |-> NoArgs, before |-> NewRetriever,
     sparse_results |-> <<>>, dense_results |-> <<>>, candidates |-> <<>>,
     filtered |-> <<>>, results |-> <<>>, out |-> NoOut]

Callers == {1, 2}

NoChunking ==
    [content |-> <<>>, chunk_size |-> 0, called |-> FALSE, chunks |-> <<>>, closures |-> <<>>]

\* the variables of the concurrent callers and of the chunker
Aside == <<inflight, chunking>>

Init ==
    /\ pc = "off"
    /\ documents = <<>>
    /\ bm25 = NoBM25
    /\ index = NoIndex
    /\ blob = MissingBlob
    /\ faissFile = MissingFile
    /\ docsDir \in {DirChoices[i] : i \in 1..Len(DirChoices)}
    /\ faissLib \in BOOLEAN
    /\ bm25Lib \in BOOLEAN
    /\ hasReranker \in BOOLEAN
    /\ tieOrder \in {"low_first", "high_first"}
    /\ last = NoLast
    /\ inflight = [c \in Callers |-> NoCall]
    /\ chunking = NoChunking

Config == <<docsDir, faissLib, bm25Lib, hasReranker, tieOrder>>

\* rag_system = AdvancedRAGSystem(...)
Start ==
    /\ pc = "off"
    /\ LET c == Construct(docsDir, bm25Lib, faissLib, blob, faissFile)
       IN  /\ Len(c.retriever.documents) <= MaxDocs
           /\ documents' = c.retriever.documents
           /\ bm25' = c.retriever.bm25
           /\ index' = c.retriever.index
           /\ blob' = c.cache.blob
           /\ faissFile' = c.cache.faissFile
           /\ last' = [NoLast EXCEPT !.op = "construct",
                                     !.load_ret = c.loaded.ret,
                                     !.after_load = c.loaded.retriever,
                                     !.processed = c.processed,
                                     !.blob_before = blob,
                                     !.file_before = faissFile]
    /\ pc' = "ready"
    /\ UNCHANGED <<Config, Aside>>

\* retriever.add_documents(D)
Ingest(D) ==
    /\ pc = "ready"
    /\ Len(documents) + Len(D) <= MaxDocs
    /\ LET a == add_documents(Retriever, D, bm25Lib, faissLib, faissFile)
       IN  /\ documents' = a.retriever.documents
           /\ bm25' = a.retriever.bm25
           /\ index' = a.retriever.index
           /\ blob' = a.cache.blob
           /\ faissFile' = a.cache.faissFile
    /\ last' = [NoLast EXCEPT !.op = "add_documents", !.before = Retriever, !.batch = D]
    /\ UNCHANGED <<pc, Config, Aside>>

\* rag_system.retrieve(query, k, use_reranking, filters, alpha).  `last` is an
\* observation that the next operation overwrites and a query changes
\* nothing else, so a query that follows a query reaches no state that a
\* first query does not reach: queries are taken from the states the other
\* operations leave.
Retrieve(query, k, use_reranking, filters, a) ==
    /\ pc = "ready"
    /\ last.op # "retrieve"
    /\ LET found == search(documents, bm25, index, faissLib, hasReranker, tieOrder,
                           query, k, use_reranking, filters, a)
       IN  last' = [NoLast EXCEPT !.op = "retrieve", !.query = query, !.k = k,
                                  !.use_reranking = use_reranking, !.filters = filters,
                                  !.alpha = a, !.found = found,
                                  !.out = IF found.raised THEN NoOut ELSE retrieve(found),
                                  !.before = Retriever]
    /\ UNCHANGED <<pc, documents, bm25, index, blob, faissFile, Config, Aside>>

\* the process ends; the cache directory stays
Exit ==
    /\ pc = "ready"
    /\ pc' = "off"
    /\ documents' = <<>>
    /\ bm25' = NoBM25
    /\ index' = NoIndex
    /\ last' = NoLast
    /\ UNCHANGED <<blob, faissFile, Config, Aside>>

\* between two runs the cache directory is damaged
RemoveBlob ==
    /\ pc = "off" /\ blob.kind = "ok"
    /\ blob' = MissingBlob
    /\ UNCHANGED <<pc, documents, bm25, index, faissFile, Config, last, Aside>>

DamageBlob ==
    /\ pc = "off" /\ blob.kind = "ok"
    /\ blob' = CorruptBlob
    /\ UNCHANGED <<pc, documents, bm25, index, faissFile, Config, last, Aside>>

DropBlobKey(key) ==
    /\ pc = "off" /\ blob.kind = "ok" /\ blob.keys = BlobKeys
    /\ blob' = [blob EXCEPT !.keys = @ \ {key}]
    /\ UNCHANGED <<pc, documents, bm25, index, faissFile, Config, last, Aside>>

RemoveIndexFile ==
    /\ pc = "off" /\ faissFile.kind = "ok"
    /\ faissFile' = MissingFile
    /\ UNCHANGED <<pc, documents, bm25, index, blob, Config, last, Aside>>

DamageIndexFile ==
    /\ pc = "off" /\ faissFile.kind = "ok"
    /\ faissFile' = CorruptFile
    /\ UNCHANGED <<pc, documents, bm25, index, blob, Config, last, Aside>>

Next ==
    \/ Start
    \/ \E i \in 1..Len(BatchChoices) : Ingest(BatchChoices[i])
    \/ \E query \in Queries, k \in 0..MaxK, use_reranking \in BOOLEAN,
          i \in 1..Len(FilterChoices), a \in Alphas :
          Retrieve(query, k, use_reranking, FilterChoices[i], a)
    \/ Exit
    \/ RemoveBlob
    \/ DamageBlob
    \/ \E key \in BlobKeys : DropBlobKey(key)
    \/ RemoveIndexFile
    \/ DamageIndexFile

Spec == Init /\ [][Next]_vars

----------------------------------------------------------------------------
(* Two callers inside retrieve at once.  No ingestion runs meanwhile; each *)
(* statement group of search is one step of its caller, reading the        *)
(* retriever at the moment the step runs.                                  *)

\* the arguments the two callers choose from
CallChoices ==
    << [query |-> <<"mammals">>, k |-> 1, use_reranking |-> FALSE,
        filters |-> NoFilters, alpha |-> 1],
       [query |-> <<"Cats">>, k |-> MaxK, use_reranking |-> TRUE,
        filters |-> [topic |-> "gis"], alpha |-> AlphaDen],
       [query |-> <<"mammals">>, k |-> MaxK, use_reranking |-> TRUE,
        filters |-> NoFilters, alpha |-> 0],
       [query |-> <<"Cats">>, k |-> 0, use_reranking |-> FALSE,
        filters |-> [file_type |-> "pdf"], alpha |-> 1] >>

\* the engine a process holds after construction over an empty cache
\* directory and, with withBatch, one add_documents call
EngineAfter(dir, withBatch, sparseLib, denseLib) ==
    LET c == Construct(dir, sparseLib, denseLib, MissingBlob, MissingFile)
    IN  IF withBatch
        THEN add_documents(c.retriever, BatchChoices[1], sparseLib, denseLib,
                           c.cache.faissFile)
        ELSE [retriever |-> c.retriever, cache |-> c.cache]

QueryInit ==
    /\ pc = "ready"
    /\ docsDir \in {DirChoices[i] : i \in 1..Len(DirChoices)}
    /\ faissLib \in BOOLEAN
    /\ bm25Lib \in BOOLEAN
    /\ hasReranker \in BOOLEAN
    /\ tieOrder \in {"low_first", "high_first"}
    /\ \E withBatch \in BOOLEAN :
          LET e == EngineAfter(docsDir, withBatch, bm25Lib, faissLib)
          IN  /\ Len(e.retriever.documents) <= MaxDocs
              /\ documents = e.retriever.documents
              /\ bm25 = e.retriever.bm25
              /\ index = e.retriever.index
              /\ blob = e.cache.blob
              /\ faissFile = e.cache.faissFile
    /\ last = NoLast
    /\ inflight = [c \in Callers |-> NoCall]
    /\ chunking = NoChunking

\* what no step of a query writes
Engine == <<pc, documents, bm25, index, blob, faissFile, Config, last, chunking>>

Other(c) == CHOOSE d \in Callers : d # c

\* caller c enters rag_system.retrieve(...)
Call(c, args) ==
    /\ inflight[c].stage = "idle"
    /\ inflight' = [inflight EXCEPT ![c] =
                       [NoCall EXCEPT !.stage = "sparse", !.args = args,
                                      !.seen = inflight[Other(c)].stage,
                                      !.before = Retriever]]
    /\ UNCHANGED Engine

\* sparse_results = self._sparse_search(query, k * 3) if alpha < 1 else []
SparseStep(c) ==
    /\ inflight[c].stage = "sparse"
    /\ LET args == inflight[c].args
           sp == IF args.alpha < AlphaDen
                 THEN _sparse_search(documents, bm25, args.query, args.k * 3, tieOrder)
                 ELSE [raised |-> FALSE, results |-> <<>>]
       IN  inflight' = [inflight EXCEPT ![c].stage = IF sp.raised THEN "raised" ELSE "dense",
                                        ![c].sparse_results = sp.results]
    /\ UNCHANGED Engine

\* dense_results = self._dense_search(query, k * 3) if alpha > 0 else []
DenseStep(c) ==
    /\ inflight[c].stage = "dense"
    /\ LET args == inflight[c].args
           de == IF args.alpha > 0
                 THEN _dense_search(documents, index, faissLib, args.query, args.k * 3, tieOrder)
                 ELSE [raised |-> FALSE, results |-> <<>>]
       IN  inflight' = [inflight EXCEPT ![c].stage = IF de.raised THEN "raised" ELSE "fuse",
                                        ![c].dense_results = de.results]
    /\ UNCHANGED Engine

\* combined_scores, the lookup of each id in self.documents, sort, [:k * 2]
FuseStep(c) ==
    /\ inflight[c].stage = "fuse"
    /\ LET args == inflight[c].args
           combined_scores == AddDense(AddSparse(<<>>, inflight[c].sparse_results, args.alpha),
                                       inflight[c].dense_results, args.alpha)
           fused == SortDesc([i \in 1..Len(combined_scores) |->
                                [doc |-> FirstWithId(documents, combined_scores[i].id),
                                 score |-> combined_scores[i].score]])
       IN  inflight' = [inflight EXCEPT ![c].stage = "filter",
                                        ![c].candidates = Take(fused, args.k * 2)]
    /\ UNCHANGED Engine

\* if filters: candidates = self._apply_filters(candidates, filters)
FilterStep(c) ==
    /\ inflight[c].stage = "filter"
    /\ LET args == inflight[c].args
       IN  inflight' = [inflight EXCEPT
                           ![c].stage = "rerank",
                           ![c].filtered = IF DOMAIN args.filters # {}
                                           THEN _apply_filters(inflight[c].candidates, args.filters)
                                           ELSE inflight[c].candidates]
    /\ UNCHANGED Engine

\* the last step of search, marking every document of the corpus as queried
RerankStep_tagging(c) ==
    /\ inflight[c].stage = "rerank"
    /\ LET args == inflight[c].args
           results == IF rerank_enabled(args.use_reranking, hasReranker, inflight[c].filtered)
                      THEN _rerank(args.query, inflight[c].filtered, args.k)
                      ELSE Take(inflight[c].filtered, args.k)
       IN  inflight' = [inflight EXCEPT ![c].stage = "done",
                                        ![c].results = results,
                                        ![c].out = retrieve([results |-> results])]
    /\ documents' = [i \in 1..Len(documents) |->
                        [documents[i] EXCEPT !.metadata = @ @@ [queried |-> TRUE]]]
    /\ UNCHANGED <<pc, bm25, index, blob, faissFile, Config, last, chunking>>

\* rerank or [:k], then the rest of retrieve
RerankStep(c) ==
    /\ inflight[c].stage = "rerank"
    /\ LET args == inflight[c].args
           results == IF rerank_enabled(args.use_reranking, hasReranker, inflight[c].filtered)
                      THEN _rerank(args.query, inflight[c].filtered, args.k)
                      ELSE Take(inflight[c].filtered, args.k)
       IN  inflight' = [inflight EXCEPT ![c].stage = "done",
                                        ![c].results = results,
                                        ![c].out = retrieve([results |-> results])]
    /\ UNCHANGED Engine

QueryNext ==
    \E c \in Callers :
        \/ \E i \in 1..Len(CallChoices) : Call(c, CallChoices[i])
        \/ SparseStep(c)
        \/ DenseStep(c)
        \/ FuseStep(c)
        \/ FilterStep(c)
        \/ RerankStep(c)

QuerySpec == QueryInit /\ [][QueryNext]_vars

----------------------------------------------------------------------------
(* AdvancedRAGSystem._chunk_text.  Here a string is the sequence of its    *)
(* characters.                                                             *)

Whitespace == {" ", "\n"}

RECURSIVE lstrip(_)
lstrip(s) == IF s # <<>> /\ Head(s) \in Whitespace THEN lstrip(Tail(s)) ELSE s

\* str.strip()
strip(s) == Reverse(lstrip(Reverse(lstrip(s))))

\* str.replace(old, new) for one-character old and new
replace(s, old, new) == [i \in 1..Len(s) |-> IF s[i] = old THEN new ELSE s[i]]

StartsWith(s, p) == Len(s) >= Len(p) /\ SubSeq(s, 1, Len(p)) = p

\* str.endswith('.')
endswith(s, c) == s # <<>> /\ s[Len(s)] = c

RECURSIVE SplitFrom(_, _, _)
SplitFrom(s, sep, piece) ==
    IF s = <<>> THEN <<piece>>
    ELSE IF StartsWith(s, sep)
         THEN <<piece>> \o SplitFrom(SubSeq(s, Len(sep) + 1, Len(s)), sep, <<>>)
         ELSE SplitFrom(Tail(s), sep, Append(piece, Head(s)))

\* str.split(sep): the pieces between the occurrences of sep, found from
\* the left
split(s, sep) == SplitFrom(s, sep, <<>>)

RECURSIVE join(_, _)
\* sep.join(parts)
join(sep, parts) ==
    IF parts = <<>> THEN <<>>
    ELSE IF Len(parts) = 1 THEN parts[1]
    ELSE parts[1] \o sep \o join(sep, Tail(parts))

SentenceEnd == <<".", " ">>
Period == <<".">>
Space == <<" ">>

NotBlank(s) == strip(s) # <<>>

\* sentences = [s.strip() + '.' for s in text.replace('\n', ' ').split('. ') if s.strip()]
Sentences(text) ==
    LET kept == SelectSeq(split(replace(text, "\n", " "), SentenceEnd), NotBlank)
    IN  [i \in 1..Len(kept) |-> strip(kept[i]) \o Period]

\* the pieces of the closed chunk that seed the next one
OverlapPieces == 3

\* the locals of _chunk_text before the loop; closures records, for every
\* chunk the loop closes, the chunk, the sentence that did not fit and the
\* chunk opened in its place
ChunkStart == [chunks |-> <<>>, current_chunk |-> <<>>, current_size |-> 0, closures |-> <<>>]

\* one pass of `for sentence in sentences`
ChunkSentence(st, sentence, chunk_size) ==
    LET sentence_size == Len(sentence)
    IN  IF st.current_size + sentence_size > chunk_size /\ st.current_chunk # <<>>
        THEN
          LET overlap_text == LastK(split(st.current_chunk, Period), OverlapPieces)
              seed == strip(join(Period, overlap_text))
              closedSeed == IF seed # <<>> /\ ~endswith(seed, ".") THEN seed \o Period ELSE seed
              opened == closedSeed \o Space \o sentence
          IN  [chunks |-> Append(st.chunks, strip(st.current_chunk)),
               current_chunk |-> opened,
               current_size |-> Len(opened),
               closures |-> Append(st.closures,
                                   [closed |-> strip(st.current_chunk),
                                    sentence |-> sentence,
                                    opened |-> opened])]
        ELSE [st EXCEPT !.current_chunk = IF st.current_chunk # <<>>
                                          THEN st.current_chunk \o Space \o sentence
                                          ELSE sentence,
                        !.current_size = st.current_size + sentence_size]

RECURSIVE ChunkLoop(_, _, _)
ChunkLoop(st, sentences, chunk_size) ==
    IF sentences = <<>> THEN st
    ELSE ChunkLoop(ChunkSentence(st, Head(sentences), chunk_size), Tail(sentences), chunk_size)

\* _chunk_text without the final `chunks.append(current_chunk.strip())`
_chunk_text_without_last(text, chunk_size) ==
    LET st == ChunkLoop(ChunkStart, Sentences(text), chunk_size)
    IN  [chunks |-> st.chunks, closures |-> st.closures]

\* AdvancedRAGSystem._chunk_text, with the closures of its loop
_chunk_text(text, chunk_size) ==
    LET st == ChunkLoop(ChunkStart, Sentences(text), chunk_size)
    IN  [chunks |-> IF strip(st.current_chunk) # <<>>
                    THEN Append(st.chunks, strip(st.current_chunk))
                    ELSE st.chunks,
         closures |-> st.closures]

\* bounds of the chunker's inputs
MaxSentences == 4
MaxChunkSize == 8

\* what stands between two occurrences of '. ' in a file
PieceChoices ==
    { <<"a">>, <<"b", "\n", "b">>, <<"c", ".", "d">>, <<"e", ".">>, <<" ">> }

\* the contents of a file: up to MaxSentences pieces, '. ' between them
Contents ==
    {join(SentenceEnd, pieces) :
        pieces \in UNION {[1..n -> PieceChoices] : n \in 0..MaxSentences}}

ChunkInit ==
    /\ pc = "off"
    /\ documents = <<>>
    /\ bm25 = NoBM25
    /\ index = NoIndex
    /\ blob = MissingBlob
    /\ faissFile = MissingFile
    /\ docsDir = <<>>
    /\ faissLib = FALSE
    /\ bm25Lib = FALSE
    /\ hasReranker = FALSE
    /\ tieOrder = "low_first"
    /\ last = NoLast
    /\ inflight = [c \in Callers |-> NoCall]
    /\ \E text \in Contents, size \in 1..MaxChunkSize :
          chunking = [NoChunking EXCEPT !.content = text, !.chunk_size = size]

\* chunks = self._chunk_text(content)
ChunkText ==
    /\ ~chunking.called
    /\ LET r == _chunk_text(chunking.content, chunking.chunk_size)
       IN  chunking' = [chunking EXCEPT !.called = TRUE,
                                        !.chunks = r.chunks,
                                        !.closures = r.closures]
    /\ UNCHANGED <<pc, documents, bm25, index, blob, faissFile, Config, last, inflight>>

ChunkNext == ChunkText

ChunkSpec == ChunkInit /\ [][ChunkNext]_vars

----------------------------------------------------------------------------
(* Ingestion in which the embedding call may raise.  The caller catches    *)
(* the exception and goes on using the retriever.                          *)

MaxBatchSize == 2

IngestInit ==
    /\ pc = "ready"
    /\ docsDir \in {DirChoices[i] : i \in 1..Len(DirChoices)}
    /\ faissLib \in BOOLEAN
    /\ bm25Lib \in BOOLEAN
    /\ hasReranker = FALSE
    /\ tieOrder = "low_first"
    /\ LET c == Construct(docsDir, bm25Lib, faissLib, MissingBlob, MissingFile)
       IN  /\ documents = c.retriever.documents
           /\ bm25 = c.retriever.bm25
           /\ index = c.retriever.index
           /\ blob = c.cache.blob
           /\ faissFile = c.cache.faissFile
    /\ last = NoLast
    /\ inflight = [c \in Callers |-> NoCall]
    /\ chunking = NoChunking

\* retriever.add_documents(D, batch_size) in which encode raises on batch
\* number `failing`
IngestRaises(D, batch_size, failing) ==
    /\ pc = "ready"
    /\ Len(documents) + Len(D) <= MaxDocs
    /\ failing \in 1..NumBatches(D, batch_size)
    /\ documents' = add_documents_raising(Retriever, D, batch_size, failing).documents
    /\ last' = [NoLast EXCEPT !.op = "add_documents_raised", !.before = Retriever,
                              !.batch = D, !.batch_size = batch_size,
                              !.failing = failing]
    /\ UNCHANGED <<pc, bm25, index, blob, faissFile, Config, Aside>>

IngestNext ==
    \/ \E i \in 1..Len(BatchChoices), batch_size \in 1..MaxBatchSize, failing \in 1..MaxDocs :
          IngestRaises(BatchChoices[i], batch_size, failing)
    \/ \E i \in 1..Len(BatchChoices) : Ingest(BatchChoices[i])
    \/ \E query \in Queries, k \in 0..MaxK, use_reranking \in BOOLEAN,
          i \in 1..Len(FilterChoices), a \in Alphas :
          Retrieve(query, k, use_reranking, FilterChoices[i], a)

IngestSpec == IngestInit /\ [][IngestNext]_vars

----------------------------------------------------------------------------
(* Runs of the program over one cache directory in which a run may be      *)
(* stopped inside _save_cache, after rag_cache.pkl was written and before  *)
(* faiss.index is.                                                         *)

\* retriever.add_documents(D) stopped between pickle.dump and
\* faiss.write_index: the blob holds the new corpus, the index file is the
\* one of the save before, and the process is gone
IngestInterrupted(D) ==
    /\ pc = "ready"
    /\ Len(documents) + Len(D) <= MaxDocs
    /\ LET a == add_documents(Retriever, D, bm25Lib, faissLib, faissFile)
       IN  /\ faissLib /\ a.retriever.index.present
           /\ blob' = a.cache.blob
    /\ pc' = "off"
    /\ documents' = <<>>
    /\ bm25' = NoBM25
    /\ index' = NoIndex
    /\ last' = NoLast
    /\ UNCHANGED <<faissFile, Config, Aside>>

StoreNext ==
    \/ Start
    \/ \E i \in 1..Len(BatchChoices) : Ingest(BatchChoices[i])
    \/ \E i \in 1..Len(BatchChoices) : IngestInterrupted(BatchChoices[i])
    \/ Exit

StoreSpec == Init /\ [][StoreNext]_vars

----------------------------------------------------------------------------
(* domain_expert: the sources listed to the user and the search            *)
(* restricted to one of them.                                              *)

\* Path(doc.source).name: the last component of the path
PathName(source) == [source EXCEPT !.dir = ""]

\* AdvancedRAGSystem.get_statistics
get_statistics(r, denseLib, reranker) ==
    LET sources == {r.documents[i].source : i \in 1..Len(r.documents)}
        names == {PathName(r.documents[i].source) : i \in 1..Len(r.documents)}
    IN  [total_documents |-> Len(r.documents),
         total_sources |-> Cardinality(sources),
         index_type |-> IF denseLib /\ r.index.present THEN "FAISS" ELSE "NumPy",
         has_sparse_index |-> r.bm25.present,
         has_reranker |-> reranker,
         source_breakdown |->
             [n \in names |->
                 Cardinality({i \in 1..Len(r.documents) : PathName(r.documents[i].source) = n})]]

\* domain_expert.get_available_sources
get_available_sources(r, denseLib, reranker) ==
    DOMAIN get_statistics(r, denseLib, reranker).source_breakdown

\* the k that search_specific_source passes to retrieve
SourceSearchK == 5

\* retrieve's default alpha, 0.7, lies strictly between 0 and 1: both paths
\* run and both scores count; on the grid of alphas of this model
DefaultAlpha == AlphaDen - 1

\* a document that a caller ingests under a source that is a bare file name
SrcN == [dir |-> "", stem |-> "n", ext |-> "txt"]
NoteBatch == <<Document(NoId, TextCats, SrcN, NoPage, 0, [file_type |-> "txt"])>>

SourceInit ==
    /\ pc = "ready"
    /\ docsDir \in {DirChoices[i] : i \in 1..Len(DirChoices)}
    /\ faissLib \in BOOLEAN
    /\ bm25Lib \in BOOLEAN
    /\ hasReranker \in BOOLEAN
    /\ tieOrder \in {"low_first", "high_first"}
    /\ LET c == Construct(docsDir, bm25Lib, faissLib, MissingBlob, MissingFile)
       IN  /\ documents = c.retriever.documents
           /\ bm25 = c.retriever.bm25
           /\ index = c.retriever.index
           /\ blob = c.cache.blob
           /\ faissFile = c.cache.faissFile
    /\ last = NoLast
    /\ inflight = [c \in Callers |-> NoCall]
    /\ chunking = NoChunking

\* domain_expert.search_specific_source(source_name, query) with a name
\* taken from get_available_sources(); a non-empty context goes on to
\* query_domain_expert, an empty one gives the "No relevant content" reply
SearchSpecificSource(source_name, query) ==
    /\ pc = "ready"
    /\ source_name \in get_available_sources(Retriever, faissLib, hasReranker)
    /\ LET filters == [source |-> source_name]
           found == search(documents, bm25, index, faissLib, hasReranker, tieOrder,
                           query, SourceSearchK, TRUE, filters, DefaultAlpha)
       IN  last' = [NoLast EXCEPT !.op = "search_specific_source", !.query = query,
                                  !.k = SourceSearchK, !.use_reranking = TRUE,
                                  !.filters = filters, !.alpha = DefaultAlpha,
                                  !.found = found,
                                  !.out = IF found.raised THEN NoOut ELSE retrieve(found),
                                  !.before = Retriever]
    /\ UNCHANGED <<pc, documents, bm25, index, blob, faissFile, Config, Aside>>

SourceNext ==
    \/ \E i \in 1..Len(BatchChoices) : Ingest(BatchChoices[i])
    \/ Ingest(NoteBatch)
    \/ \E source_name \in {PathName(s) : s \in {SrcA, SrcB, SrcP, SrcN}}, query \in Queries :
          SearchSpecificSource(source_name, query)

SourceSpec == SourceInit /\ [][SourceNext]_vars

----------------------------------------------------------------------------
(* Properties *)

Queried == last.op = "retrieve"
Returned == Queried /\ ~last.found.raised

UniqueIds(docs) ==
    \A i \in 1..Len(docs) : \A j \in 1..Len(docs) : i # j => docs[i].id # docs[j].id

\* C1: on an engine whose corpus is empty, retrieve returns ("", [], [])
\* and does not raise, whatever the query, k, alpha, filters and reranking.
C1_EmptyCorpusContract ==
    (Queried /\ documents = <<>>) => (~last.found.raised /\ last.out = NoOut)

\* C2: the list returned by search/retrieve has at most min(k, n) entries,
\* n the corpus size, with or without filters and reranking.
C2_ResultCountBound ==
    Returned =>
        /\ Len(last.found.results) <= Min(last.k, Len(documents))
        /\ Len(last.out.documents) <= Min(last.k, Len(documents))

\* the reranker was given more candidates than k and returned exactly k
C2_Witness ==
    /\ Returned
    /\ last.found.rerank_called
    /\ last.k > 0
    /\ Len(last.found.filtered) > last.k
    /\ Len(last.found.results) = last.k

InSeq(x, seq) == \E i \in 1..Len(seq) : seq[i] = x

ReservedKeys == {"source", "min_score"}

\* the filter stage ran on a non-empty filter map
Filtered == Returned /\ DOMAIN last.filters # {}

\* C3 (as claimed): a candidate whose metadata lacks a filter key other than
\* source/min_score is excluded, so every candidate that is kept carries
\* every such key.
C3_MissingKeyExcludes ==
    Filtered =>
        \A i \in 1..Len(last.found.filtered) :
            \A key \in DOMAIN last.filters \ ReservedKeys :
                key \in DOMAIN last.found.filtered[i].doc.metadata

\* C3 (amended): a filter key other than source/min_score that a candidate's
\* metadata lacks is ignored for that candidate; a filter made only of keys
\* that no candidate carries leaves the candidate list as it was.
C3_MissingKeyIgnored ==
    Filtered =>
        /\ \A i \in 1..Len(last.found.candidates) :
              LET c == last.found.candidates[i]
                  others == {key \in DOMAIN last.filters :
                                key \in ReservedKeys \/ key \in DOMAIN c.doc.metadata}
              IN  (\A key \in others : ~FilterRejects(c, key, last.filters[key]))
                      => InSeq(c, last.found.filtered)
        /\ (\A key \in DOMAIN last.filters :
               /\ key \notin ReservedKeys
               /\ \A i \in 1..Len(last.found.candidates) :
                     key \notin DOMAIN last.found.candidates[i].doc.metadata)
              => last.found.filtered = last.found.candidates

\* a filter on a metadata key kept a candidate that lacks the key
C3_Witness ==
    /\ Filtered
    /\ \E key \in DOMAIN last.filters \ ReservedKeys :
          \E i \in 1..Len(last.found.filtered) :
              key \notin DOMAIN last.found.filtered[i].doc.metadata

Ingested == last.op = "add_documents"

\* the batch as add_documents stores it: every document with its embedding
Embedded(D) == [i \in 1..Len(D) |-> [D[i] EXCEPT !.embedding = encode(D[i].text)]]

\* the sparse and dense indices hold one entry per document of docs, in order
SparseBuiltFrom(docs) ==
    /\ bm25.present
    /\ Len(bm25.corpus) = Len(docs)
    /\ \A i \in 1..Len(docs) : bm25.corpus[i] = Tokenize(docs[i].text)

DenseBuiltFrom(docs) ==
    /\ index.present
    /\ Len(index.vectors) = Len(docs)
    /\ \A i \in 1..Len(docs) : index.vectors[i].vec = docs[i].embedding

\* C4 (as claimed): after add_documents(D) the corpus consists of exactly
\* the documents of D, and both indices are built from exactly D.
C4_IngestReplaces ==
    Ingested =>
        /\ documents = Embedded(last.batch)
        /\ bm25Lib => SparseBuiltFrom(Embedded(last.batch))
        /\ faissLib => DenseBuiltFrom(Embedded(last.batch))

\* C4 (amended): after add_documents(D) the corpus is the corpus before the
\* call followed by the documents of D, and both indices are rebuilt from
\* that whole corpus.
C4_IngestAppends ==
    Ingested =>
        /\ documents = last.before.documents \o Embedded(last.batch)
        /\ bm25Lib => SparseBuiltFrom(documents)
        /\ faissLib => DenseBuiltFrom(documents)

\* an ingestion into a non-empty corpus, with both index libraries
C4_Witness ==
    /\ Ingested
    /\ last.before.documents # <<>>
    /\ last.batch # <<>>
    /\ bm25Lib /\ faissLib
    /\ Len(documents) > Len(last.batch)

\* C5: no two documents of the corpus have the same id, in every state
\* reached by construction, cache loads and ingests.
C5_UniqueIds == UniqueIds(documents)

Constructed == last.op = "construct"

\* what load_cache found in the cache directory
BlobLoaded == last.blob_before.kind = "ok" /\ last.blob_before.keys = BlobKeys
IndexFileLoaded == last.file_before.kind = "ok"

\* C6: load_cache adopts persisted state only when both the blob and the
\* dense-index file were loaded; otherwise it returns False and neither
\* part is used (the retriever is as __init__ left it).  Stated for the
\* build with faiss, the one that writes and reads a dense-index file.
C6_CacheAtomicity ==
    (Constructed /\ faissLib) =>
        /\ last.load_ret => (BlobLoaded /\ IndexFileLoaded)
        /\ ~last.load_ret => last.after_load = NewRetriever

\* the conditions of the cache directory under which a load fails
LoadFailure ==
    \/ last.blob_before.kind \in {"missing", "corrupt"}
    \/ last.blob_before.keys # BlobKeys
    \/ faissLib /\ last.file_before.kind = "corrupt"

\* the documents _process_documents makes of the docs directory
DirDocuments == FilesToDocs(docsDir, "txt") \o FilesToDocs(docsDir, "pdf")

\* C7: whatever is wrong with the cache directory (blob missing, corrupt or
\* lacking a key, index file unreadable), load_cache returns False and
\* construction completes by the from-scratch path: the documents of the
\* docs directory are ingested and the cache is written again.
C7_MalformedCacheFallsBack ==
    (Constructed /\ LoadFailure) =>
        /\ pc = "ready"
        /\ ~last.load_ret
        /\ last.processed
        /\ documents = last.after_load.documents \o Embedded(DirDocuments)
        /\ DirDocuments # <<>> => (blob.kind = "ok" /\ blob.documents = documents)

\* an unreadable index file next to a good blob, and the fallback ran
C7_Witness ==
    /\ Constructed
    /\ faissLib
    /\ last.blob_before.kind = "ok"
    /\ last.blob_before.keys = BlobKeys
    /\ last.file_before.kind = "corrupt"
    /\ ~last.load_ret
    /\ DirDocuments # <<>>
    /\ blob.kind = "ok"

Plain == Returned /\ DOMAIN last.filters = {} /\ ~last.use_reranking

\* the whole sparse and dense rankings of the last query, best first
SparseRanking ==
    _sparse_search(documents, bm25, last.query, Len(documents), tieOrder).results

DenseRanking ==
    _dense_search(documents, index, faissLib, last.query, Len(documents), tieOrder).results

\* C8: with a sparse index, no filters and reranking off, search at alpha = 0
\* returns the top k of the sparse ranking (documents, order and scores) and
\* does not invoke the dense path.
C8_AlphaZeroIsSparseOnly ==
    (Plain /\ last.alpha = 0 /\ bm25.present) =>
        /\ last.found.results = Take(SparseRanking, last.k)
        /\ ~last.found.dense_called

\* C9: on a non-empty corpus, with no filters and reranking off, search at
\* alpha = 1 returns the top k of the dense ranking (documents, order and
\* scores, whatever their sign) and does not invoke the sparse path.
C9_AlphaOneIsDenseOnly ==
    (Plain /\ last.alpha = AlphaDen /\ documents # <<>>) =>
        /\ last.found.results = Take(DenseRanking, last.k)
        /\ ~last.found.sparse_called

\* C8 and C9 on corpora whose ids are unique
C8_UniqueIdsCase == UniqueIds(documents) => C8_AlphaZeroIsSparseOnly
C9_UniqueIdsCase == UniqueIds(documents) => C9_AlphaOneIsDenseOnly

Restrict(f, keys) == [key \in keys |-> f[key]]

\* the three predicates as the claim reads them
SatisfiesAsClaimed(c, key, value) ==
    IF key = "source" THEN c.doc.source = value
    ELSE IF key = "min_score" THEN c.score >= value
    ELSE key \in DOMAIN c.doc.metadata /\ c.doc.metadata[key] = value

\* the three predicates as the code applies them: a metadata key binds only
\* a document that carries it, and source/min_score are also compared with a
\* metadata entry of the same name when there is one
SatisfiesAsCoded(c, key, value) ==
    /\ key = "source" => c.doc.source = value
    /\ key = "min_score" => c.score >= value
    /\ key \in DOMAIN c.doc.metadata => c.doc.metadata[key] = value

PassesAsClaimed(c) ==
    \A key \in DOMAIN last.filters : SatisfiesAsClaimed(c, key, last.filters[key])

PassesAsCoded(c) ==
    \A key \in DOMAIN last.filters : SatisfiesAsCoded(c, key, last.filters[key])

\* removing predicates never excludes a candidate that was kept
FilterMonotone ==
    \A keys \in SUBSET DOMAIN last.filters :
        \A i \in 1..Len(last.found.filtered) :
            InSeq(last.found.filtered[i],
                  _apply_filters(last.found.candidates, Restrict(last.filters, keys)))

\* C10 (as claimed): a candidate is kept iff it satisfies every supplied
\* predicate (source equality, score >= min_score, metadata equality), and
\* a candidate kept under a filter map is kept under each of its sub-maps.
C10_KeptIffAllPredicates ==
    Filtered =>
        /\ last.found.filtered = SelectSeq(last.found.candidates, PassesAsClaimed)
        /\ FilterMonotone

\* C10 (amended): a candidate is kept iff every supplied predicate that
\* applies to it holds, where a metadata key applies only to a document
\* whose metadata has that key; and a candidate kept under a filter map is
\* kept under each of its sub-maps.
C10_KeptIffApplicablePredicates ==
    Filtered =>
        /\ last.found.filtered = SelectSeq(last.found.candidates, PassesAsCoded)
        /\ FilterMonotone

\* a two-predicate filter that kept a candidate, excluded one for its score
\* alone and excluded one for its source alone
C10_Witness ==
    /\ Filtered
    /\ DOMAIN last.filters = {"source", "min_score"}
    /\ last.found.filtered # <<>>
    /\ \E i \in 1..Len(last.found.candidates) :
          /\ last.found.candidates[i].doc.source = last.filters.source
          /\ last.found.candidates[i].score < last.filters.min_score
    /\ \E i \in 1..Len(last.found.candidates) :
          /\ last.found.candidates[i].doc.source # last.filters.source
          /\ last.found.candidates[i].score >= last.filters.min_score

\* the citations of the returned documents, in rank order
Citations == [i \in 1..Len(last.out.documents) |-> get_citation(last.out.documents[i])]

\* position of the first occurrence of x in seq
FirstAt(x, seq) == CHOOSE i \in 1..Len(seq) : seq[i] = x /\ \A j \in 1..(i - 1) : seq[j] # x

DistinctSources ==
    \A i \in 1..Len(documents) : \A j \in 1..Len(documents) :
        i # j => documents[i].source # documents[j].source

NoPages == \A i \in 1..Len(documents) : documents[i].page = NoPage

SmallCorpusQuery ==
    /\ Queried
    /\ DOMAIN last.filters = {}
    /\ ~last.use_reranking
    /\ 0 < last.alpha /\ last.alpha < AlphaDen
    /\ Len(documents) <= last.k
    /\ DistinctSources
    /\ NoPages

\* C12: on a corpus of n <= k documents from distinct sources without page
\* numbers, a query with 0 < alpha < 1, no filters and reranking off returns
\* all n documents, and the citation list holds "[<source-stem>]" for each.
C12_SmallCorpusReturnsAll ==
    SmallCorpusQuery =>
        /\ ~last.found.raised
        /\ Len(last.out.documents) = Len(documents)
        /\ \A i \in 1..Len(documents) :
              /\ InSeq(documents[i], last.out.documents)
              /\ InSeq(<<documents[i].source.stem>>, last.out.citations)

\* C12 on the corpora that hold at least one document
C12_NonEmptyCase == documents # <<>> => C12_SmallCorpusReturnsAll

\* two documents, one of them without a sparse hit, both returned
C12_TwoDocuments ==
    /\ SmallCorpusQuery
    /\ Len(documents) = 2
    /\ Len(last.found.sparse_results) < 2
    /\ Len(last.out.documents) = 2

Finished(c) == inflight[c].stage \in {"done", "raised"}

\* the outcome of caller c's query when it runs with no other caller
Alone(c) ==
    LET args == inflight[c].args
    IN  search(documents, bm25, index, faissLib, hasReranker, tieOrder,
               args.query, args.k, args.use_reranking, args.filters, args.alpha)

\* C13: a query in progress leaves the corpus (documents with their text,
\* metadata and embedding) and both indices as they were when it was called,
\* and under every interleaving of the two callers each finished query has
\* the outcome it has when it runs alone.
C13_QueriesReadOnly ==
    \A c \in Callers :
        /\ inflight[c].stage # "idle" => Retriever = inflight[c].before
        /\ Finished(c) =>
              /\ (inflight[c].stage = "raised") = Alone(c).raised
              /\ inflight[c].stage = "done" =>
                    /\ inflight[c].results = Alone(c).results
                    /\ inflight[c].out = retrieve(Alone(c))

\* both queries returned documents, with different arguments, and the
\* second was called while the first was between two of its steps
C13_Witness ==
    \E c \in Callers :
        /\ inflight[c].stage = "done" /\ inflight[Other(c)].stage = "done"
        /\ inflight[c].seen \in {"dense", "fuse", "filter", "rerank"}
        /\ inflight[c].args # inflight[Other(c)].args
        /\ inflight[c].results # <<>> /\ inflight[Other(c)].results # <<>>
        /\ documents # <<>>

\* no candidate survived: both paths came back empty, the truncation kept
\* none, or the filters rejected every candidate
Exhausted ==
    /\ Returned
    /\ \/ last.found.sparse_results = <<>> /\ last.found.dense_results = <<>>
       \/ last.found.candidates = <<>>
       \/ last.found.filtered = <<>>

\* C14: when no candidate survives a stage, search returns the empty list
\* without invoking the reranker, and retrieve returns ("", [], []).
C14_ExhaustionIsEmpty ==
    Exhausted =>
        /\ last.found.results = <<>>
        /\ ~last.found.rerank_called
        /\ last.out = NoOut

\* reranking was asked for and available, there were candidates, and the
\* filters rejected all of them
C14_Witness ==
    /\ Exhausted
    /\ last.use_reranking /\ hasReranker
    /\ last.found.candidates # <<>>
    /\ DOMAIN last.filters # {}
    /\ last.found.filtered = <<>>
    /\ last.out = NoOut

\* the score the dense path gave to the document with this id
DenseScoreOf(id) ==
    LET de == last.found.dense_results
    IN  de[CHOOSE i \in 1..Len(de) : de[i].doc.id = id].score

\* C15: in a build without the sparse-index library, ingestion succeeds and
\* leaves no sparse index, _sparse_search returns the empty list without
\* raising for every query and k, and every fused candidate has the score
\* alpha * dense_score.
C15_SparseBackendAbsent ==
    ~bm25Lib =>
        /\ ~bm25.present
        /\ Ingested => documents = last.before.documents \o Embedded(last.batch)
        /\ Queried =>
              /\ _sparse_search(documents, bm25, last.query, last.k * 3, tieOrder)
                    = [raised |-> FALSE, results |-> <<>>]
              /\ last.found.sparse_results = <<>>
        /\ Returned =>
              \A i \in 1..Len(last.found.fused) :
                  /\ \E j \in 1..Len(last.found.dense_results) :
                        last.found.dense_results[j].doc.id = last.found.fused[i].doc.id
                  /\ last.found.fused[i].score
                        = (last.alpha * DenseScoreOf(last.found.fused[i].doc.id)) \div AlphaDen

\* C15 on the corpora whose ids are unique
C15_UniqueIdsCase == UniqueIds(documents) => C15_SparseBackendAbsent

\* without the library: a corpus was ingested, a query with a sparse share
\* found nothing on the sparse path and its candidates carry dense scores
C15_DenseOnlyFusion ==
    /\ ~bm25Lib
    /\ Returned
    /\ 0 < last.alpha /\ last.alpha < AlphaDen
    /\ last.found.sparse_called
    /\ Len(last.found.fused) > 1
    /\ \E i \in 1..Len(last.found.fused) : last.found.fused[i].score > 0

DocsOf(results) == [i \in 1..Len(results) |-> results[i].doc]

\* the two paths of _dense_search on the current corpus, for the last query
ExactPath(k) == _dense_search(documents, index, TRUE, last.query, k, tieOrder)
FallbackPath(k) == _dense_search(documents, NoIndex, FALSE, last.query, k, tieOrder)

\* C16: on a corpus below the exact-search threshold whose FAISS index is
\* built from it, for every query and k >= 1 the dot-product fallback of
\* _dense_search returns the same documents in the same order as the FAISS
\* path, whatever the norms of the embeddings.
C16_FallbackMatchesExact ==
    (Queried /\ faissLib /\ DenseBuiltFrom(documents) /\ Len(documents) < ExactThreshold) =>
        \A k \in 1..MaxDocs :
            /\ ~ExactPath(k).raised
            /\ ~FallbackPath(k).raised
            /\ DocsOf(FallbackPath(k).results) = DocsOf(ExactPath(k).results)

\* the embeddings of the corpus all have the same norm
EqualNorms ==
    \A i \in 1..Len(documents) : \A j \in 1..Len(documents) :
        Norm(documents[i].embedding) = Norm(documents[j].embedding)

\* C16 on the corpora whose embeddings have one norm
C16_EqualNormsCase == EqualNorms => C16_FallbackMatchesExact

\* the sentences packed into a chunk: its pieces between '. ', each with
\* its period
SentencesOf(chunk) ==
    LET pieces == split(chunk, SentenceEnd)
    IN  [i \in 1..Len(pieces) |-> IF i < Len(pieces) THEN pieces[i] \o Period ELSE pieces[i]]

PeriodsIn(s) == Cardinality({i \in 1..Len(s) : s[i] = "."})

\* C17: whenever _chunk_text closes a chunk because the next sentence would
\* overflow, the chunk it opens is the last three sentences of the closed
\* chunk (all of them when there are fewer), then the overflowing sentence.
C17_OverlapIsLastThree ==
    chunking.called =>
        \A i \in 1..Len(chunking.closures) :
            LET c == chunking.closures[i]
            IN  c.opened = join(Space, LastK(SentencesOf(c.closed), OverlapPieces)
                                          \o <<c.sentence>>)

\* what the code keeps when every sentence of the closed chunk has its
\* final period only: the last two sentences
C17_LastTwoOfPlainSentences ==
    chunking.called =>
        \A i \in 1..Len(chunking.closures) :
            LET c == chunking.closures[i]
                packed == SentencesOf(c.closed)
            IN  (\A j \in 1..Len(packed) : PeriodsIn(packed[j]) = 1)
                    => c.opened = join(Space, LastK(packed, OverlapPieces - 1)
                                                 \o <<c.sentence>>)

\* a chunk of three sentences was closed
C17_ThreeSentencesClosed ==
    /\ chunking.called
    /\ \E i \in 1..Len(chunking.closures) :
          LET packed == SentencesOf(chunking.closures[i].closed)
          IN  Len(packed) = OverlapPieces /\ \A j \in 1..Len(packed) : PeriodsIn(packed[j]) = 1

\* C18: every chunk _chunk_text returns is at most chunk_size characters
\* long, separators and re-seeded overlap included.
C18_ChunkSizeBound ==
    chunking.called =>
        \A i \in 1..Len(chunking.chunks) : Len(chunking.chunks[i]) <= chunking.chunk_size

\* every sentence fits chunk_size on its own, and a chunk is longer
C18_SeparatorsOverflow ==
    /\ chunking.called
    /\ \A i \in 1..Len(Sentences(chunking.content)) :
          Len(Sentences(chunking.content)[i]) <= chunking.chunk_size
    /\ \E i \in 1..Len(chunking.chunks) : Len(chunking.chunks[i]) > chunking.chunk_size

\* within every source the chunk_index values grow along the sequence
IncreasingPerSource(docs) ==
    \A i \in 1..Len(docs) : \A j \in 1..Len(docs) :
        (i < j /\ docs[i].source = docs[j].source)
            => docs[i].chunk_index < docs[j].chunk_index

\* construction found no usable cache and took nothing from it
BuiltFromDirectory ==
    /\ Constructed
    /\ last.processed
    /\ last.after_load.documents = <<>>

\* C19: in the corpus that processing the docs directory produces, the
\* chunk_index values of each source's documents are strictly increasing in
\* corpus order, for text files and for PDF files of several pages.
C19_ChunkIndexIncreasing ==
    BuiltFromDirectory => IncreasingPerSource(documents)

HasId(results, id) == \E i \in 1..Len(results) : results[i].doc.id = id

ScoreOf(results, id) ==
    results[CHOOSE i \in 1..Len(results) : results[i].doc.id = id].score

\* the share of one path in a fused score
SparseShare(id) ==
    IF HasId(last.found.sparse_results, id)
    THEN ((AlphaDen - last.alpha) * ScoreOf(last.found.sparse_results, id)) \div AlphaDen
    ELSE 0

DenseShare(id) ==
    IF HasId(last.found.dense_results, id)
    THEN (last.alpha * ScoreOf(last.found.dense_results, id)) \div AlphaDen
    ELSE 0

NonIncreasing(cands) ==
    \A i \in 1..(Len(cands) - 1) : cands[i].score >= cands[i + 1].score

\* C20: search asks each active path (sparse when alpha < 1, dense when
\* alpha > 0) for 3k candidates; a fused candidate is in at least one result
\* set and its score is (1 - alpha) * sparse_score for the sparse set plus
\* alpha * dense_score for the dense set, each counted only when the
\* candidate is in that set; the fused list is in non-increasing score order
\* and its first 2k entries, at most, go on to filtering.
C20_FusionScoring ==
    Returned =>
        /\ last.found.sparse_called = (last.alpha < AlphaDen)
        /\ last.found.dense_called = (last.alpha > 0)
        /\ last.found.sparse_called =>
              last.found.sparse_results
                 = _sparse_search(documents, bm25, last.query, 3 * last.k, tieOrder).results
        /\ last.found.dense_called =>
              last.found.dense_results
                 = _dense_search(documents, index, faissLib, last.query, 3 * last.k,
                                 tieOrder).results
        /\ \A i \in 1..Len(last.found.fused) :
              LET id == last.found.fused[i].doc.id
              IN  /\ HasId(last.found.sparse_results, id) \/ HasId(last.found.dense_results, id)
                  /\ last.found.fused[i].score = SparseShare(id) + DenseShare(id)
        /\ \A i \in 1..Len(last.found.sparse_results) :
              HasId(last.found.fused, last.found.sparse_results[i].doc.id)
        /\ \A i \in 1..Len(last.found.dense_results) :
              HasId(last.found.fused, last.found.dense_results[i].doc.id)
        /\ NonIncreasing(last.found.fused)
        /\ last.found.candidates = Take(last.found.fused, 2 * last.k)
        /\ Len(last.found.candidates) <= 2 * last.k

\* C20 on the corpora whose ids are unique
C20_UniqueIdsCase == UniqueIds(documents) => C20_FusionScoring

\* a fusion with a candidate in both result sets, one in the dense set
\* only, and more fused candidates than the 2k that are kept
C20_MixedFusion ==
    /\ Returned
    /\ UniqueIds(documents)
    /\ 0 < last.alpha /\ last.alpha < AlphaDen
    /\ \E i \in 1..Len(last.found.fused) :
          /\ HasId(last.found.sparse_results, last.found.fused[i].doc.id)
          /\ HasId(last.found.dense_results, last.found.fused[i].doc.id)
    /\ \E i \in 1..Len(last.found.fused) :
          ~HasId(last.found.sparse_results, last.found.fused[i].doc.id)
    /\ Len(last.found.fused) > 2 * last.k
    /\ last.k > 0

\* the scores of the sparse index for the last query, one per indexed document
SparseScores == get_scores(bm25, Tokenize(last.query))

\* what the claim asks of the outcome of _sparse_search(query, k)
SparseTopK(r, k) ==
    /\ ~r.raised
    /\ Len(r.results) <= k
    /\ \A i \in 1..Len(r.results) : r.results[i].score > 0
    /\ NonIncreasing(r.results)
    /\ \A i \in 1..Len(r.results) :
          Cardinality({p \in 1..Len(SparseScores) : SparseScores[p] > r.results[i].score})
             <= Cardinality({j \in 1..Len(r.results) :
                                r.results[j].score > r.results[i].score})

\* the sparse index is the one built from the corpus
SparseAligned == bm25.present /\ Len(bm25.corpus) = Len(documents)

\* C21: for every query and every k >= 0, _sparse_search returns at most k
\* results, each with a strictly positive score, in non-increasing score
\* order, and no document it leaves out scores higher than one it returns.
C21_SparseTopK ==
    (Queried /\ SparseAligned) =>
        \A k \in 0..MaxDocs :
            SparseTopK(_sparse_search(documents, bm25, last.query, k, tieOrder), k)

\* C21 for k >= 1
C21_PositiveKCase ==
    (Queried /\ SparseAligned) =>
        \A k \in 1..MaxDocs :
            SparseTopK(_sparse_search(documents, bm25, last.query, k, tieOrder), k)

\* k = 1 on a corpus with two documents of positive score: one is left out
C21_Truncated ==
    /\ Queried /\ SparseAligned
    /\ Cardinality({p \in 1..Len(SparseScores) : SparseScores[p] > 0}) > 1
    /\ Len(_sparse_search(documents, bm25, last.query, 1, tieOrder).results) = 1

\* _dense_search on the current corpus for the last query, on the path this
\* build takes
DensePath(k) == _dense_search(documents, index, faissLib, last.query, k, tieOrder)

\* the dense index, when there is one, is the one built from the corpus
DenseAligned == index.present => DenseBuiltFrom(documents)

\* what the claim asks of the outcome of _dense_search(query, k)
DenseValid(r, k) ==
    /\ ~r.raised
    /\ Len(r.results) <= Min(k, Len(documents))
    /\ \A i \in 1..Len(r.results) : InSeq(r.results[i].doc, documents)

\* C22: for every query, every k >= 0 and every corpus size, also k larger
\* than the corpus, each result of _dense_search is a document of the
\* corpus and there are at most min(k, n) results, on the FAISS path and on
\* the numpy path.
C22_DenseResultsValid ==
    (Queried /\ DenseAligned) =>
        \A k \in 0..(MaxDocs + 1) : DenseValid(DensePath(k), k)

\* C22 for k >= 1 on a corpus that is not empty
C22_PositiveCase ==
    (Queried /\ DenseAligned /\ documents # <<>>) =>
        \A k \in 1..(MaxDocs + 1) : DenseValid(DensePath(k), k)

\* the FAISS index was asked for more rows than it holds
C22_PaddedSearch ==
    /\ Queried /\ faissLib /\ index.present /\ DenseBuiltFrom(documents)
    /\ Len(documents) < MaxDocs + 1
    /\ Len(DensePath(MaxDocs + 1).results) = Len(documents)

\* 0.3 * (r + 1) / 2 + 0.7 * (c + 1) / 2 in units of 1/ScoreUnit
Blend(r, c) ==
    (RetrievalWeight * ((r + ScoreUnit) \div 2) + RerankWeight * ((c + ScoreUnit) \div 2))
        \div WeightDen

\* the final score the claim gives to a candidate of the reranker's input
FinalScore(cand) == Blend(cand.score, predict(last.query, cand.doc.text))

Reranked == Returned /\ last.found.rerank_called

\* C23: _rerank gives each candidate the score 0.3 * (r + 1) / 2 +
\* 0.7 * (c + 1) / 2, r its retrieval score and c its cross-encoder score,
\* without clamping; it returns the k best in non-increasing order of that
\* score, only documents of its input, each at most once.
C23_RerankBlend ==
    Reranked =>
        LET input == last.found.filtered
            output == last.found.results
        IN  /\ Len(output) = Min(last.k, Len(input))
            /\ NonIncreasing(output)
            /\ \A i \in 1..Len(output) :
                  /\ \E j \in 1..Len(input) :
                        /\ input[j].doc = output[i].doc
                        /\ output[i].score = FinalScore(input[j])
                  /\ \A j \in 1..Len(output) : i # j => output[i].doc # output[j].doc
                  /\ Cardinality({j \in 1..Len(input) : FinalScore(input[j]) > output[i].score})
                        <= Cardinality({j \in 1..Len(output) :
                                           output[j].score > output[i].score})

\* a rerank that dropped a candidate, with a cross-encoder score above 1
\* in its input and a final score above 1 in its output
C23_Witness ==
    /\ Reranked
    /\ last.k > 0
    /\ Len(last.found.filtered) > last.k
    /\ \E i \in 1..Len(last.found.results) : last.found.results[i].score > ScoreUnit
    /\ \E j \in 1..Len(last.found.filtered) :
          predict(last.query, last.found.filtered[j].doc.text) > ScoreUnit

\* C24: in every search the filter runs on the fused list truncated to 2k
\* and before reranking: the reranker is given at most 2k candidates, each
\* with its fused score, each passed by every filter predicate (min_score
\* compared with the fused score), and what it returns is not filtered again.
C24_StageOrdering ==
    Returned =>
        /\ last.found.candidates = Take(last.found.fused, 2 * last.k)
        /\ last.found.filtered = IF DOMAIN last.filters # {}
                                 THEN SelectSeq(last.found.candidates, PassesAsCoded)
                                 ELSE last.found.candidates
        /\ last.found.rerank_called =>
              /\ Len(last.found.filtered) <= 2 * last.k
              /\ \A i \in 1..Len(last.found.filtered) :
                    LET c == last.found.filtered[i]
                    IN  /\ InSeq(c, last.found.fused)
                        /\ \A key \in DOMAIN last.filters :
                              ~FilterRejects(c, key, last.filters[key])
                        /\ "min_score" \in DOMAIN last.filters
                              => c.score >= last.filters.min_score
              /\ last.found.results = _rerank(last.query, last.found.filtered, last.k)

\* a min_score filter rejected a candidate and kept one whose fused score
\* is above the floor and whose reranked score is below it
C24_Witness ==
    /\ Reranked
    /\ "min_score" \in DOMAIN last.filters
    /\ Len(last.found.filtered) < Len(last.found.candidates)
    /\ \E i \in 1..Len(last.found.results) :
          last.found.results[i].score < last.filters.min_score

\* C25: whenever load_cache returns False, whatever the point of failure,
\* the retriever is as it was before the call (as __init__ left it), so the
\* corpus after the fallback ingestion is exactly the freshly processed
\* documents, none of them twice.
C25_FailedLoadLeavesNoTrace ==
    (Constructed /\ ~last.load_ret) =>
        /\ last.after_load = NewRetriever
        /\ documents = Embedded(DirDocuments)
        /\ UniqueIds(documents)

\* the failures that happen before load_cache assigns anything: no blob,
\* or a blob that cannot be unpickled
FailedBeforeAssignment == last.blob_before.kind \in {"missing", "corrupt"}

\* for a failure before the first assignment the claim holds
C25_EarlyFailureCase ==
    (Constructed /\ ~last.load_ret /\ FailedBeforeAssignment) =>
        /\ last.after_load = NewRetriever
        /\ documents = Embedded(DirDocuments)
        /\ UniqueIds(documents)

\* a load that failed after the blob was read, followed by the fallback
C25_LateFailure ==
    /\ Constructed
    /\ ~last.load_ret
    /\ last.blob_before.kind = "ok"
    /\ last.blob_before.documents # <<>>
    /\ last.processed
    /\ DirDocuments # <<>>

IngestRaised == last.op = "add_documents_raised"

\* the documents a later search(query, k, alpha) returns in this state
FoundNow(query, k, a) ==
    search(documents, bm25, index, faissLib, hasReranker, tieOrder,
           query, k, FALSE, NoFilters, a).results

\* a document of the batch the failed call was given
OfBatch(doc) == \E i \in 1..Len(last.batch) : last.batch[i].id = doc.id

\* C26: if the embedding call raises in any batch of add_documents, the
\* corpus and both indices are the same as before the call, and no later
\* query returns a document of the failed ingestion.
C26_FailedIngestionAtomic ==
    IngestRaised =>
        /\ Retriever = last.before
        /\ \A query \in Queries, k \in 0..MaxK, a \in Alphas :
              LET found == FoundNow(query, k, a)
              IN  \A i \in 1..Len(found) : ~OfBatch(found[i].doc)

\* the corpus before the call held no document of the batch
FreshBatch == \A i \in 1..Len(last.before.documents) : ~OfBatch(last.before.documents[i])

\* when it is the first batch that fails the claim holds
C26_FirstBatchCase ==
    (IngestRaised /\ last.failing = 1 /\ FreshBatch) =>
        /\ Retriever = last.before
        /\ \A query \in Queries, k \in 0..MaxK, a \in Alphas :
              LET found == FoundNow(query, k, a)
              IN  \A i \in 1..Len(found) : ~OfBatch(found[i].doc)

\* a failure in a later batch
C26_LaterBatchFailed == IngestRaised /\ last.failing > 1

\* a later query returns a document of the failed ingestion
C26_FailedDocumentFound ==
    /\ IngestRaised
    /\ \E query \in Queries, k \in 0..MaxK, a \in Alphas :
          LET found == FoundNow(query, k, a)
          IN  \E i \in 1..Len(found) : OfBatch(found[i].doc)

\* C27: in every state reached by successful ingests, cache saves (also a
\* save interrupted between the blob and the dense-index file) and cache
\* loads, a present sparse index and a present dense index each hold
\* exactly one entry per corpus document, at the document's position.
C27_IndexCorpusAlignment ==
    pc = "ready" =>
        /\ bm25.present => SparseBuiltFrom(documents)
        /\ index.present => DenseBuiltFrom(documents)

\* what does hold: the entries of a present dense index are those of the
\* first documents of the corpus, so no position lies outside the corpus
\* or maps to another document
C27_IndexIsPrefix ==
    (pc = "ready" /\ index.present) =>
        /\ Len(index.vectors) <= Len(documents)
        /\ \A i \in 1..Len(index.vectors) : index.vectors[i].vec = documents[i].embedding

\* a cache loaded whose index file is older than its blob
C27_StaleIndexLoaded ==
    /\ Constructed
    /\ last.load_ret
    /\ index.present
    /\ Len(index.vectors) < Len(documents)

SourceSearched == last.op = "search_specific_source" /\ ~last.found.raised

\* the candidate's document was ingested from the source of that name
FromNamedSource(cand) == PathName(cand.doc.source) = last.filters.source

\* C28: for a source name listed by get_available_sources(),
\* search_specific_source(name, query) keeps exactly the candidates whose
\* document comes from that source, so it returns content whenever the
\* fused candidates hold a document of that source.
C28_SourceSearchReachable ==
    SourceSearched =>
        /\ last.found.filtered = SelectSeq(last.found.candidates, FromNamedSource)
        /\ (\E i \in 1..Len(last.found.candidates) : FromNamedSource(last.found.candidates[i]))
              => last.out.context # <<>>

\* for a source whose path is a bare file name the claim holds
C28_BareNameCase ==
    (SourceSearched /\ last.filters.source = SrcN) =>
        /\ last.found.filtered = SelectSeq(last.found.candidates, FromNamedSource)
        /\ (\E i \in 1..Len(last.found.candidates) : FromNamedSource(last.found.candidates[i]))
              => last.out.context # <<>>

\* a search within a bare-name source that returned content
C28_BareNameFound ==
    /\ SourceSearched
    /\ last.filters.source = SrcN
    /\ Len(last.found.filtered) < Len(last.found.candidates)
    /\ last.out.context # <<>>

\* for every source under the docs directory the search returns nothing
C28_DirectorySourcesEmpty ==
    (SourceSearched /\ last.filters.source # SrcN) => last.out.context = <<>>

\* the ids of the results of a search, in order
ResultIds == [i \in 1..Len(last.found.results) |-> last.found.results[i].doc.id]

\* C29: each document id appears at most once in the list search returns,
\* for every query, k, alpha, filters and reranking setting, also when both
\* the sparse and the dense path return the document.
C29_NoDuplicateResults ==
    Returned =>
        \A i \in 1..Len(ResultIds) : \A j \in 1..Len(ResultIds) :
            i # j => ResultIds[i] # ResultIds[j]

\* a result that both paths returned, next to another result
C29_BothPathsWitness ==
    /\ Returned
    /\ Len(last.found.results) > 1
    /\ \E i \in 1..Len(last.found.results) :
          /\ HasId(last.found.sparse_results, last.found.results[i].doc.id)
          /\ HasId(last.found.dense_results, last.found.results[i].doc.id)

\* a corpus with one id twice, both copies returned by the dense path, and
\* one result for the id
C29_DuplicateIdsCollapsed ==
    /\ Returned
    /\ ~UniqueIds(documents)
    /\ \E i \in 1..Len(last.found.dense_results) :
       \E j \in 1..Len(last.found.dense_results) :
          /\ i # j
          /\ last.found.dense_results[i].doc.id = last.found.dense_results[j].doc.id
          /\ HasId(last.found.results, last.found.dense_results[i].doc.id)

\* sentence s stands in text t at offset o
OccursAt(s, t, o) == o + Len(s) - 1 <= Len(t) /\ SubSeq(t, o, o + Len(s) - 1) = s

OccursIn(s, t) == \E o \in 1..Len(t) : OccursAt(s, t, o)

\* the first returned chunk that holds s, and the first offset of s in it
FirstChunk(s) ==
    CHOOSE c \in 1..Len(chunking.chunks) :
        /\ OccursIn(s, chunking.chunks[c])
        /\ \A b \in 1..(c - 1) : ~OccursIn(s, chunking.chunks[b])

FirstOffset(s) ==
    LET t == chunking.chunks[FirstChunk(s)]
    IN  CHOOSE o \in 1..Len(t) : OccursAt(s, t, o) /\ \A p \in 1..(o - 1) : ~OccursAt(s, t, p)

\* the first occurrence of s comes before the first occurrence of t
FirstOccursEarlier(s, t) ==
    \/ FirstChunk(s) < FirstChunk(t)
    \/ FirstChunk(s) = FirstChunk(t) /\ FirstOffset(s) < FirstOffset(t)

\* C30: _chunk_text returns, every non-blank sentence of the input (split on
\* '. ') stands in at least one returned chunk, the first occurrences of
\* the sentences follow the order in which the sentences first appear in
\* the input, and no returned chunk is empty or whitespace only.
C30_ChunkerCoverage ==
    chunking.called =>
        LET sentences == Sentences(chunking.content)
            New(i) == \A h \in 1..(i - 1) : sentences[h] # sentences[i]
        IN  /\ \A c \in 1..Len(chunking.chunks) : strip(chunking.chunks[c]) # <<>>
            /\ \A i \in 1..Len(sentences) :
                  \E c \in 1..Len(chunking.chunks) : OccursIn(sentences[i], chunking.chunks[c])
            /\ \A i \in 1..Len(sentences) : \A j \in 1..Len(sentences) :
                  (i < j /\ New(i) /\ New(j))
                      => FirstOccursEarlier(sentences[i], sentences[j])

\* an input with a blank piece and a repeated sentence, chunked into
\* several chunks of which two hold the same sentence
C30_Witness ==
    /\ chunking.called
    /\ LET sentences == Sentences(chunking.content)
       IN  /\ Len(split(replace(chunking.content, "\n", " "), SentenceEnd)) > Len(sentences)
           /\ \E i \in 1..Len(sentences) : \E j \in 1..Len(sentences) :
                 i # j /\ sentences[i] = sentences[j]
           /\ \E i \in 1..Len(sentences) : \E j \in 1..Len(sentences) :
                 sentences[i] # sentences[j]
           /\ Len(chunking.chunks) > 1
           /\ \E i \in 1..Len(sentences) :
              \E b \in 1..Len(chunking.chunks) : \E c \in 1..Len(chunking.chunks) :
                 /\ b # c
                 /\ OccursIn(sentences[i], chunking.chunks[b])
                 /\ OccursIn(sentences[i], chunking.chunks[c])

====
